---- MODULE Spec2Model ----
(***************************************************************************)
(* A model of cifar10.py: the multi-worker FSDP training script of a ViT.  *)
(*                                                                         *)
(* Every worker (rank) runs the same script top to bottom.  The workers    *)
(* meet only in collective operations: init_process_group, the two         *)
(* dataset barriers, init_device_mesh, and the all-gathers and             *)
(* reduce-scatters that fully_shard's hooks issue around the forward and   *)
(* backward computation of every wrapped unit.  A collective is joined     *)
(* and then completes once every worker of the group has joined it.        *)
(*                                                                         *)
(* Three specifications:                                                   *)
(*   Spec / FairSpec / CrashSpec : the whole script, all workers           *)
(*   LogSpec   : the training loop's statistics (lines 245-271) of one     *)
(*               worker, one loop iteration per step                       *)
(*   ShapeSpec : VIT.forward's shape computation as a pure function        *)
(***************************************************************************)
EXTENDS Naturals, Integers, Sequences, FiniteSets, TLC

(* ------------------------------ bounds -------------------------------- *)
\* workers in the group (the script's mesh is 8 wide)
NumWorkers == 2
\* transformer depth (the script's VIT() default is 8)
Depth == 2
\* len(trainloader) in the whole-script specifications
NumBatches == 2
\* the largest image side tried by ShapeSpec
MaxSide == 32
\* LogSpec tries loaders of LogInterval-LogSlack .. LogInterval+LogSlack batches
LogSlack == 1

(* ------------------------- program constants -------------------------- *)
\* range(2), line 245
Epochs == 2
\* i % 2000 == 1999, line 269
LogInterval == 2000
\* patch_size=4, line 159
PatchSize == 4
\* image_size=32, line 160
ImageSize == 32
\* debug = False, line 13
debug == FALSE

Workers == 0 .. (NumWorkers - 1)
None == 0 - 1

(* ------------------------ the model's modules ------------------------- *)
\* Units that fully_shard wraps: the root (net) and, per layer i, the
\* PreNorm(Attention) at 2i-1 and the PreNorm(FeedForward) at 2i.
Root == 0
Leaves == 1 .. (2 * Depth)
Units == {Root} \cup Leaves

LeafParam(u) == IF u % 2 = 1 THEN <<"attn", (u + 1) \div 2>> ELSE <<"ffn", u \div 2>>

\* Parameters registered directly under VIT (lines 163-182), outside the
\* transformer's attention and feed-forward modules.
RootOwnParams ==
    {<<"patch_embed", 0>>, <<"pos_embs", 0>>, <<"out_norm", 0>>,
     <<"pooler", 0>>, <<"proj_out", 0>>}

\* module.parameters() of the module a unit wraps
ModuleParams(u) ==
    IF u = Root THEN RootOwnParams \cup {LeafParam(v) : v \in Leaves}
    ELSE {LeafParam(u)}

\* The order of the fully_shard calls, lines 231-238: every attention, then
\* every feed-forward, then the whole model.
ShardOrderRootFirst ==
    [k \in 1 .. (2 * Depth + 1) |->
        IF k = 1 THEN Root
        ELSE IF k <= Depth + 1 THEN 2 * (k - 1) - 1
        ELSE 2 * (k - 1 - Depth)]

ShardOrder ==
    [k \in 1 .. (2 * Depth + 1) |->
        IF k <= Depth THEN 2 * k - 1
        ELSE IF k <= 2 * Depth THEN 2 * (k - Depth)
        ELSE Root]

\* fsdp_config["reshard_after_forward"] = True (line 228) is passed for every
\* unit.  For the Attention and FeedForward units it is honoured.  For the
\* root unit (the last call, line 238) torch's fully_shard documents that
\* the value is set to False as a heuristic, the root's parameters being
\* needed again at once by backward; the script pins no library version, so
\* both outcomes are kept: rootReshards is fixed for a run in Init.
ReshardNever(u, rootToo) == FALSE

ReshardAfterForward(u, rootToo) == IF u = Root THEN rootToo ELSE TRUE

\* The hooks and computations of one forward pass, in order: VIT.forward
\* (lines 184-191) around Transformer.forward (lines 95-99).
ForwardOps ==
    <<[op |-> "pre_forward", unit |-> Root], [op |-> "compute", unit |-> Root]>>
    \o [j \in 1 .. (6 * Depth) |->
          [op |-> <<"pre_forward", "compute", "post_forward">>[((j - 1) % 3) + 1],
           unit |-> ((j - 1) \div 3) + 1]]
    \o <<[op |-> "compute", unit |-> Root], [op |-> "post_forward", unit |-> Root]>>

\* loss.backward() (line 262): autograd visits the modules in reverse.
BackwardOps ==
    <<[op |-> "pre_backward", unit |-> Root], [op |-> "compute", unit |-> Root]>>
    \o [j \in 1 .. (6 * Depth) |->
          [op |-> <<"pre_backward", "compute", "post_backward">>[((j - 1) % 3) + 1],
           unit |-> 2 * Depth - ((j - 1) \div 3)]]
    \o <<[op |-> "compute", unit |-> Root], [op |-> "post_backward", unit |-> Root]>>

(* --------------------------- the script ------------------------------- *)
\* The top-level statements before the training loop, lines 28-244.
StartupBarrierFirst ==
    <<"init_process_group", "barrier_train", "download_train", "load_train",
      "barrier_test", "download_test", "load_test", "init_device_mesh",
      "fully_shard", "make_optimizer">>

Startup ==
    <<"init_process_group", "download_train", "barrier_train", "load_train",
      "download_test", "barrier_test", "load_test", "init_device_mesh",
      "fully_shard", "make_optimizer">>

\* The statements under `if torch.distributed.get_rank() == 0:`, lines 202, 211.
MasterOnlyWithBarriers ==
    {"download_train", "barrier_train", "download_test", "barrier_test"}

MasterOnly == {"download_train", "download_test"}

IsMaster(w) == w = 0

Runs(w, stage) == stage \in MasterOnly => IsMaster(w)

RECURSIVE NextRun(_, _)
NextRun(w, k) ==
    IF k > Len(Startup) THEN "epoch_start"
    ELSE IF Runs(w, Startup[k]) THEN Startup[k]
    ELSE NextRun(w, k + 1)

IndexOf(seq, s) == CHOOSE k \in 1 .. Len(seq) : seq[k] = s

AfterStartup(w, stage) == NextRun(w, IndexOf(Startup, stage) + 1)

\* The body of the inner loop, lines 254-274.
StepOrderStepBeforeBackward ==
    <<"zero_grad", "forward", "loss", "opt_step", "backward", "stats", "pbar">>

StepOrder ==
    <<"zero_grad", "forward", "loss", "backward", "opt_step", "stats", "pbar">>

AfterStage(stage) ==
    IF IndexOf(StepOrder, stage) = Len(StepOrder) THEN "fetch"
    ELSE StepOrder[IndexOf(StepOrder, stage) + 1]

\* len(trainloader): every worker builds the loader over the whole training
\* set (lines 206-209, no per-rank sampler), so it is the same on each.
BatchesForUneven(w, n) == IF IsMaster(w) THEN n + 1 ELSE n

BatchesFor(w, n) == n

\* i % 2000 == 1999, line 269
ShouldLogAtZero(i) == i % LogInterval = 0

ShouldLog(i) == i % LogInterval = LogInterval - 1

\* loss.item() of batch i of an epoch on worker w; the data set decides it.
BatchLoss(d, w, e, i) == d + ((w + e + i) % 2)

\* print_if_master, lines 23-25
PrintIfMaster(w, written) == IF IsMaster(w) /\ debug THEN written \cup {"debug"} ELSE written

(* ----------------------------- state ---------------------------------- *)
VARIABLES
    pc,            \* pc[w]: the statement worker w is at
    sub,           \* sub[w]: position inside fully_shard's loops, forward or backward
    waiting,       \* waiting[w]: w has joined a collective and is blocked in it
    ncoll,         \* ncoll[w]: collectives w has joined so far
    cur,           \* cur[w]: the last collective w joined
    halted,        \* the worker that stopped, or None
    dl,            \* dl[ds]: rank 0's initial download of data set ds
    loaded,        \* loaded[w]: data sets w has constructed (lines 206, 215)
    group,         \* group[w][u]: parameters managed by unit u's FSDP group
    mat,           \* mat[w]: units whose parameters are unsharded on w
    running,       \* running[w]: units whose forward or backward is in progress
    gathers,       \* gathers[w][u]: all-gathers of u in the current step
    reduced,       \* reduced[w]: units whose gradient is reduced and not cleared
    rootReshards,  \* whether the root unit is resharded after forward
    epoch, i,      \* the loop variables of lines 245, 247
    nbatches,      \* len(trainloader)
    data,          \* the data set, as far as the losses depend on it
    loss,          \* loss.item() of the current step
    running_loss,  \* line 246, 268, 271
    steps,         \* steps[w]: loop iterations completed
    trail,         \* trail[w]: stages completed in the current iteration
    out,           \* out[w]: kinds of output w has written
    lastLog,       \* lastLog[w]: the last loss line written, with what it covered
    winSteps, winSum,     \* steps and loss since the last loss line or epoch start
    sinceSteps, sinceSum, \* steps and loss since the last loss line or training start
    imgH, imgW,    \* ShapeSpec: the input image's height and width
    result         \* ShapeSpec: what VIT.forward returned

commVars == <<waiting, ncoll, cur>>
dataVars == <<dl, loaded>>
fsdpVars == <<group, mat, running, gathers, reduced>>
loopVars == <<epoch, i, loss, running_loss, steps>>
logVars == <<out, lastLog, winSteps, winSum, sinceSteps, sinceSum>>
envVars == <<halted, rootReshards, nbatches, data>>
shapeVars == <<imgH, imgW, result>>

vars ==
    <<pc, sub, trail, commVars, dataVars, fsdpVars, loopVars, logVars, envVars, shapeVars>>

NoOp == [kind |-> "none", site |-> "none", unit |-> 0]
NoLine == [lines |-> 0, reported |-> 0, over |-> 0, winSteps |-> 0, winSum |-> 0,
           sinceSteps |-> 0, sinceSum |-> 0]
Datasets == {"train", "test"}
LossBases == {1, 2}

Live(w) == halted # w

InitCommon ==
    /\ sub = [w \in Workers |-> 1]
    /\ waiting = [w \in Workers |-> FALSE]
    /\ ncoll = [w \in Workers |-> 0]
    /\ cur = [w \in Workers |-> NoOp]
    /\ halted = None
    /\ dl = [ds \in Datasets |-> "none"]
    /\ loaded = [w \in Workers |-> {}]
    /\ group = [w \in Workers |-> [u \in Units |-> {}]]
    /\ mat = [w \in Workers |-> {}]
    /\ running = [w \in Workers |-> {}]
    /\ gathers = [w \in Workers |-> [u \in Units |-> 0]]
    /\ reduced = [w \in Workers |-> {}]
    /\ epoch = [w \in Workers |-> 0]
    /\ i = [w \in Workers |-> 0]
    /\ loss = [w \in Workers |-> 0]
    /\ running_loss = [w \in Workers |-> 0]
    /\ steps = [w \in Workers |-> 0]
    /\ trail = [w \in Workers |-> <<>>]
    /\ out = [w \in Workers |-> {}]
    /\ lastLog = [w \in Workers |-> NoLine]
    /\ winSteps = [w \in Workers |-> 0]
    /\ winSum = [w \in Workers |-> 0]
    /\ sinceSteps = [w \in Workers |-> 0]
    /\ sinceSum = [w \in Workers |-> 0]

Init ==
    /\ InitCommon
    /\ pc = [w \in Workers |-> NextRun(w, 1)]
    /\ rootReshards \in BOOLEAN
    /\ nbatches = NumBatches
    /\ data \in LossBases
    /\ imgH = ImageSize /\ imgW = ImageSize
    /\ result = [status |-> "none", rows |-> 0]

(* --------------------------- collectives ------------------------------ *)
\* A collective call blocks until every worker of the group has joined it.
AllJoinedNoWait(w) == TRUE

AllJoined(w) == \A v \in Workers : ncoll[v] >= ncoll[w]

Join(w, op) ==
    /\ waiting' = [waiting EXCEPT ![w] = TRUE]
    /\ ncoll' = [ncoll EXCEPT ![w] = @ + 1]
    /\ cur' = [cur EXCEPT ![w] = op]

Leave(w) ==
    /\ waiting' = [waiting EXCEPT ![w] = FALSE]
    /\ UNCHANGED <<ncoll, cur>>

Call(kind, site, unit) == [kind |-> kind, site |-> site, unit |-> unit]

(* ----------------------- start-up, lines 28-244 ----------------------- *)
\* torch.distributed.init_process_group, lines 28-31
InitProcessGroup(w) ==
    /\ Live(w) /\ pc[w] = "init_process_group"
    /\ \/ /\ ~waiting[w]
          /\ Join(w, Call("init_process_group", "L28", 0))
          /\ UNCHANGED pc
       \/ /\ waiting[w] /\ AllJoined(w)
          /\ Leave(w)
          /\ pc' = [pc EXCEPT ![w] = AfterStartup(w, "init_process_group")]
    /\ UNCHANGED <<sub, trail, dataVars, fsdpVars, loopVars, logVars, envVars, shapeVars>>

DownloadStage(ds) == IF ds = "train" THEN "download_train" ELSE "download_test"
BarrierStage(ds) == IF ds = "train" THEN "barrier_train" ELSE "barrier_test"
LoadStage(ds) == IF ds = "train" THEN "load_train" ELSE "load_test"
BarrierSite(ds) == IF ds = "train" THEN "L205" ELSE "L214"

\* CIFAR10(..., download=True) under the rank-0 test, lines 202-204, 211-213:
\* the download takes time, it starts and later it is complete.
Download(w, ds) ==
    /\ Live(w) /\ pc[w] = DownloadStage(ds)
    /\ \/ /\ dl[ds] = "none"
          /\ dl' = [dl EXCEPT ![ds] = "running"]
          /\ UNCHANGED pc
       \/ /\ dl[ds] = "running"
          /\ dl' = [dl EXCEPT ![ds] = "done"]
          /\ pc' = [pc EXCEPT ![w] = AfterStartup(w, DownloadStage(ds))]
    /\ UNCHANGED <<sub, trail, commVars, loaded, fsdpVars, loopVars, logVars, envVars, shapeVars>>

\* torch.distributed.barrier(), lines 205, 214
Barrier(w, ds) ==
    /\ Live(w) /\ pc[w] = BarrierStage(ds)
    /\ \/ /\ ~waiting[w]
          /\ Join(w, Call("barrier", BarrierSite(ds), 0))
          /\ UNCHANGED pc
       \/ /\ waiting[w] /\ AllJoined(w)
          /\ Leave(w)
          /\ pc' = [pc EXCEPT ![w] = AfterStartup(w, BarrierStage(ds))]
    /\ UNCHANGED <<sub, trail, dataVars, fsdpVars, loopVars, logVars, envVars, shapeVars>>

\* every worker constructs the data set and its loader, lines 206-209, 215-218
\* (and, after the test set, net = VIT(), line 222)
Load(w, ds) ==
    /\ Live(w) /\ pc[w] = LoadStage(ds)
    /\ loaded' = [loaded EXCEPT ![w] = @ \cup {ds}]
    /\ pc' = [pc EXCEPT ![w] = AfterStartup(w, LoadStage(ds))]
    /\ UNCHANGED <<sub, trail, commVars, dl, fsdpVars, loopVars, logVars, envVars, shapeVars>>

\* init_device_mesh, line 224: creates the mesh's process group
InitDeviceMesh(w) ==
    /\ Live(w) /\ pc[w] = "init_device_mesh"
    /\ \/ /\ ~waiting[w]
          /\ Join(w, Call("init_device_mesh", "L224", 0))
          /\ UNCHANGED pc
       \/ /\ waiting[w] /\ AllJoined(w)
          /\ Leave(w)
          /\ pc' = [pc EXCEPT ![w] = AfterStartup(w, "init_device_mesh")]
    /\ UNCHANGED <<sub, trail, dataVars, fsdpVars, loopVars, logVars, envVars, shapeVars>>

Managed(w) == UNION {group[w][v] : v \in Units}

\* One fully_shard call of lines 231-238 with the print_if_master before it:
\* the unit's group takes the module's parameters that no earlier call took.
\* The parameters are sharded from then on.
FullyShard(w) ==
    /\ Live(w) /\ pc[w] = "fully_shard"
    /\ LET u == ShardOrder[sub[w]] IN
         group' = [group EXCEPT ![w][u] = ModuleParams(u) \ Managed(w)]
    /\ out' = [out EXCEPT ![w] = PrintIfMaster(w, @)]
    /\ IF sub[w] < Len(ShardOrder)
         THEN sub' = [sub EXCEPT ![w] = @ + 1] /\ UNCHANGED pc
         ELSE /\ sub' = [sub EXCEPT ![w] = 1]
              /\ pc' = [pc EXCEPT ![w] = AfterStartup(w, "fully_shard")]
    /\ UNCHANGED <<trail, commVars, dataVars, mat, running, gathers, reduced, loopVars,
                   lastLog, winSteps, winSum, sinceSteps, sinceSum, envVars, shapeVars>>

\* criterion, optimizer and the progress bar, lines 240-244: tqdm draws the
\* bar when it is created unless it is disabled (rank != 0).
MakeOptimizer(w) ==
    /\ Live(w) /\ pc[w] = "make_optimizer"
    /\ out' = [out EXCEPT ![w] = IF IsMaster(w) THEN @ \cup {"pbar"} ELSE @]
    /\ pc' = [pc EXCEPT ![w] = AfterStartup(w, "make_optimizer")]
    /\ UNCHANGED <<sub, trail, commVars, dataVars, fsdpVars, loopVars,
                   lastLog, winSteps, winSum, sinceSteps, sinceSum, envVars, shapeVars>>

(* --------------------- the training loop, 245-276 --------------------- *)
\* for epoch in range(2): running_loss = 0.0, lines 245-246
EpochStart(w) ==
    /\ Live(w) /\ pc[w] = "epoch_start"
    /\ running_loss' = [running_loss EXCEPT ![w] = 0]
    /\ i' = [i EXCEPT ![w] = 0]
    /\ winSteps' = [winSteps EXCEPT ![w] = 0]
    /\ winSum' = [winSum EXCEPT ![w] = 0]
    /\ pc' = [pc EXCEPT ![w] = "fetch"]
    /\ UNCHANGED <<sub, trail, commVars, dataVars, fsdpVars, epoch, loss, steps,
                   out, lastLog, sinceSteps, sinceSum, envVars, shapeVars>>

\* for i, data in enumerate(trainloader, 0), line 247: the next batch, or the
\* end of the epoch, and after the last epoch the end of the loop.
Fetch(w) ==
    /\ Live(w) /\ pc[w] = "fetch"
    /\ IF i[w] < BatchesFor(w, nbatches)
         THEN /\ pc' = [pc EXCEPT ![w] = StepOrder[1]]
              /\ gathers' = [gathers EXCEPT ![w] = [u \in Units |-> 0]]
              /\ UNCHANGED epoch
         ELSE /\ epoch' = [epoch EXCEPT ![w] = @ + 1]
              /\ pc' = [pc EXCEPT ![w] =
                           IF epoch[w] + 1 < Epochs THEN "epoch_start" ELSE "finish"]
              /\ UNCHANGED gathers
    /\ trail' = [trail EXCEPT ![w] = <<>>]
    /\ UNCHANGED <<sub, commVars, dataVars, group, mat, running, reduced, i, loss,
                   running_loss, steps, logVars, envVars, shapeVars>>

\* optimizer.zero_grad(); print_if_master("zeroed grad"), lines 254-255
ZeroGrad(w) ==
    /\ Live(w) /\ pc[w] = "zero_grad"
    /\ reduced' = [reduced EXCEPT ![w] = {}]
    /\ out' = [out EXCEPT ![w] = PrintIfMaster(w, @)]
    /\ trail' = [trail EXCEPT ![w] = Append(@, "zero_grad")]
    /\ pc' = [pc EXCEPT ![w] = AfterStage("zero_grad")]
    /\ UNCHANGED <<sub, commVars, dataVars, group, mat, running, gathers, loopVars,
                   lastLog, winSteps, winSum, sinceSteps, sinceSum, envVars, shapeVars>>

InPass(w) == pc[w] \in {"forward", "backward"}
Ops(w) == IF pc[w] = "forward" THEN ForwardOps ELSE BackwardOps
Op(w) == Ops(w)[sub[w]]

\* The next hook or computation of the pass; after the last one the pass
\* (net(inputs), line 258, or loss.backward(), line 262) returns, and the
\* print_if_master after it runs (lines 259, 263).
Advance(w) ==
    IF sub[w] < Len(Ops(w))
    THEN /\ sub' = [sub EXCEPT ![w] = @ + 1]
         /\ UNCHANGED <<pc, trail, out>>
    ELSE /\ sub' = [sub EXCEPT ![w] = 1]
         /\ pc' = [pc EXCEPT ![w] = AfterStage(pc[w])]
         /\ trail' = [trail EXCEPT ![w] = Append(@, pc[w])]
         /\ out' = [out EXCEPT ![w] = PrintIfMaster(w, @)]

\* A unit's pre-forward hook: all-gather its parameters, then run the module.
PreForward(w) ==
    /\ Live(w) /\ pc[w] = "forward" /\ Op(w).op = "pre_forward"
    /\ LET u == Op(w).unit IN
       \/ /\ ~waiting[w]
          /\ IF u \in mat[w]
               THEN /\ running' = [running EXCEPT ![w] = @ \cup {u}]
                    /\ Advance(w)
                    /\ UNCHANGED commVars
               ELSE /\ Join(w, Call("all_gather", "forward", u))
                    /\ UNCHANGED <<pc, sub, trail, out, running>>
          /\ UNCHANGED <<mat, gathers>>
       \/ /\ waiting[w] /\ AllJoined(w)
          /\ Leave(w)
          /\ mat' = [mat EXCEPT ![w] = @ \cup {u}]
          /\ gathers' = [gathers EXCEPT ![w][u] = @ + 1]
          /\ running' = [running EXCEPT ![w] = @ \cup {u}]
          /\ Advance(w)
    /\ UNCHANGED <<dataVars, group, reduced, loopVars, lastLog, winSteps, winSum,
                   sinceSteps, sinceSum, envVars, shapeVars>>

\* The module's own computation, forward or backward, with its parameters:
\* for a leaf the attention or feed-forward, lines 97-98; for the root the
\* patch embedding and positional embedding before the transformer and the
\* norm, pooler and head after it, lines 185-186 and 188-190.
Compute(w) ==
    /\ Live(w) /\ InPass(w) /\ Op(w).op = "compute"
    /\ Advance(w)
    /\ UNCHANGED <<commVars, dataVars, fsdpVars, loopVars, lastLog, winSteps, winSum,
                   sinceSteps, sinceSum, envVars, shapeVars>>

\* A unit's post-forward hook: reshard if configured to.
PostForward(w) ==
    /\ Live(w) /\ pc[w] = "forward" /\ Op(w).op = "post_forward"
    /\ LET u == Op(w).unit IN
         /\ running' = [running EXCEPT ![w] = @ \ {u}]
         /\ mat' = [mat EXCEPT ![w] =
                       IF ReshardAfterForward(u, rootReshards) THEN @ \ {u} ELSE @]
    /\ Advance(w)
    /\ UNCHANGED <<commVars, dataVars, group, gathers, reduced, loopVars, lastLog,
                   winSteps, winSum, sinceSteps, sinceSum, envVars, shapeVars>>

\* loss = criterion(outputs, labels); print_if_master("got loss"), 260-261
Loss(w) ==
    /\ Live(w) /\ pc[w] = "loss"
    /\ loss' = [loss EXCEPT ![w] = BatchLoss(data, w, epoch[w], i[w])]
    /\ out' = [out EXCEPT ![w] = PrintIfMaster(w, @)]
    /\ trail' = [trail EXCEPT ![w] = Append(@, "loss")]
    /\ pc' = [pc EXCEPT ![w] = AfterStage("loss")]
    /\ UNCHANGED <<sub, commVars, dataVars, fsdpVars, epoch, i, running_loss, steps,
                   lastLog, winSteps, winSum, sinceSteps, sinceSum, envVars, shapeVars>>

\* A unit's pre-backward hook: all-gather its parameters unless they are
\* still unsharded.
PreBackward(w) ==
    /\ Live(w) /\ pc[w] = "backward" /\ Op(w).op = "pre_backward"
    /\ LET u == Op(w).unit IN
       \/ /\ ~waiting[w]
          /\ IF u \in mat[w]
               THEN /\ running' = [running EXCEPT ![w] = @ \cup {u}]
                    /\ Advance(w)
                    /\ UNCHANGED commVars
               ELSE /\ Join(w, Call("all_gather", "backward", u))
                    /\ UNCHANGED <<pc, sub, trail, out, running>>
          /\ UNCHANGED <<mat, gathers>>
       \/ /\ waiting[w] /\ AllJoined(w)
          /\ Leave(w)
          /\ mat' = [mat EXCEPT ![w] = @ \cup {u}]
          /\ gathers' = [gathers EXCEPT ![w][u] = @ + 1]
          /\ running' = [running EXCEPT ![w] = @ \cup {u}]
          /\ Advance(w)
    /\ UNCHANGED <<dataVars, group, reduced, loopVars, lastLog, winSteps, winSum,
                   sinceSteps, sinceSum, envVars, shapeVars>>

\* A unit's post-backward hook: reduce-scatter its gradient across the
\* workers and reshard its parameters.
PostBackward(w) ==
    /\ Live(w) /\ pc[w] = "backward" /\ Op(w).op = "post_backward"
    /\ LET u == Op(w).unit IN
       \/ /\ ~waiting[w]
          /\ Join(w, Call("reduce_scatter", "backward", u))
          /\ UNCHANGED <<pc, sub, trail, out, mat, running, reduced>>
       \/ /\ waiting[w] /\ AllJoined(w)
          /\ Leave(w)
          /\ reduced' = [reduced EXCEPT ![w] = @ \cup {u}]
          /\ mat' = [mat EXCEPT ![w] = @ \ {u}]
          /\ running' = [running EXCEPT ![w] = @ \ {u}]
          /\ Advance(w)
    /\ UNCHANGED <<dataVars, group, gathers, loopVars, lastLog, winSteps, winSum,
                   sinceSteps, sinceSum, envVars, shapeVars>>

\* optimizer.step(); print_if_master("stepped"), lines 264-265
OptStep(w) ==
    /\ Live(w) /\ pc[w] = "opt_step"
    /\ out' = [out EXCEPT ![w] = PrintIfMaster(w, @)]
    /\ trail' = [trail EXCEPT ![w] = Append(@, "opt_step")]
    /\ pc' = [pc EXCEPT ![w] = AfterStage("opt_step")]
    /\ UNCHANGED <<sub, commVars, dataVars, fsdpVars, loopVars,
                   lastLog, winSteps, winSum, sinceSteps, sinceSum, envVars, shapeVars>>

\* running_loss += loss.item() and the periodic loss line, lines 268-271.
\* The line shows running_loss / 2000; the record keeps the numerator and
\* the denominator (the rounding to three decimals is not modelled) and,
\* beside them, how many steps and how much loss the line covers.
LogLine(w, l) ==
    [lines |-> lastLog[w].lines + 1,
     reported |-> running_loss[w] + l, over |-> LogInterval,
     winSteps |-> winSteps[w] + 1, winSum |-> winSum[w] + l,
     sinceSteps |-> sinceSteps[w] + 1, sinceSum |-> sinceSum[w] + l]

\* the statistics of the workers in W after each has added its loss ls[w]
AddLoss(W, ls) ==
    LET logs(w) == w \in W /\ ShouldLog(i[w])
        add(f, w, x) == IF w \notin W THEN f[w] ELSE IF logs(w) THEN 0 ELSE f[w] + x
    IN  /\ lastLog' = [w \in Workers |-> IF logs(w) THEN LogLine(w, ls[w]) ELSE lastLog[w]]
        /\ running_loss' = [w \in Workers |-> add(running_loss, w, ls[w])]
        /\ winSteps' = [w \in Workers |-> add(winSteps, w, 1)]
        /\ winSum' = [w \in Workers |-> add(winSum, w, ls[w])]
        /\ sinceSteps' = [w \in Workers |-> add(sinceSteps, w, 1)]
        /\ sinceSum' = [w \in Workers |-> add(sinceSum, w, ls[w])]

LineWritten(w, written) == IF ShouldLog(i[w]) THEN written \cup {"loss_line"} ELSE written

Stats(w) ==
    /\ Live(w) /\ pc[w] = "stats"
    /\ AddLoss({w}, loss)
    /\ out' = [out EXCEPT ![w] = LineWritten(w, @)]
    /\ trail' = [trail EXCEPT ![w] = Append(@, "stats")]
    /\ pc' = [pc EXCEPT ![w] = AfterStage("stats")]
    /\ UNCHANGED <<sub, commVars, dataVars, fsdpVars, epoch, i, loss, steps,
                   envVars, shapeVars>>

\* pbar.update(1); pbar.set_description(...), lines 273-274: the bar is
\* disabled on every rank but 0 (line 244).  The iteration is complete.
PbarWritten(w, written) == IF IsMaster(w) THEN written \cup {"pbar"} ELSE written

Pbar(w) ==
    /\ Live(w) /\ pc[w] = "pbar"
    /\ out' = [out EXCEPT ![w] = PbarWritten(w, @)]
    /\ i' = [i EXCEPT ![w] = @ + 1]
    /\ steps' = [steps EXCEPT ![w] = @ + 1]
    /\ trail' = [trail EXCEPT ![w] = Append(@, "pbar")]
    /\ pc' = [pc EXCEPT ![w] = AfterStage("pbar")]
    /\ UNCHANGED <<sub, commVars, dataVars, fsdpVars, epoch, loss, running_loss,
                   lastLog, winSteps, winSum, sinceSteps, sinceSum, envVars, shapeVars>>

\* print('Finished Training'), line 276
Finish(w) ==
    /\ Live(w) /\ pc[w] = "finish"
    /\ out' = [out EXCEPT ![w] = @ \cup {"finished"}]
    /\ pc' = [pc EXCEPT ![w] = "done"]
    /\ UNCHANGED <<sub, trail, commVars, dataVars, fsdpVars, loopVars,
                   lastLog, winSteps, winSum, sinceSteps, sinceSum, envVars, shapeVars>>

WorkerNext(w) ==
    \/ InitProcessGroup(w)
    \/ Download(w, "train")
    \/ Barrier(w, "train")
    \/ Load(w, "train")
    \/ Download(w, "test")
    \/ Barrier(w, "test")
    \/ Load(w, "test")
    \/ InitDeviceMesh(w)
    \/ FullyShard(w)
    \/ MakeOptimizer(w)
    \/ EpochStart(w)
    \/ Fetch(w)
    \/ ZeroGrad(w)
    \/ PreForward(w)
    \/ Compute(w)
    \/ PostForward(w)
    \/ Loss(w)
    \/ PreBackward(w)
    \/ PostBackward(w)
    \/ OptStep(w)
    \/ Stats(w)
    \/ Pbar(w)
    \/ Finish(w)

Next == \E w \in Workers : WorkerNext(w)

Spec == Init /\ [][Next]_vars

\* Every worker is its own process and keeps running: a worker that can
\* take a step eventually takes one.
FairSpec == Init /\ [][Next]_vars /\ \A w \in Workers : WF_vars(WorkerNext(w))

\* A worker stops for good, wherever it is: a crash, a hang, or control
\* flow that leaves the script.  Nothing in the script reacts to it.
Halt(w) ==
    /\ halted = None
    /\ pc[w] # "done"
    /\ halted' = w
    /\ UNCHANGED <<pc, sub, trail, commVars, dataVars, fsdpVars, loopVars, logVars,
                   rootReshards, nbatches, data, shapeVars>>

CrashNext == Next \/ \E w \in Workers : Halt(w)

CrashSpec == Init /\ [][CrashNext]_vars

(* ------------- LogSpec: the loop's statistics, 245-274 ---------------- *)
\* The state every worker is in when it reaches line 245.
AtLoopEntry ==
    /\ sub = [w \in Workers |-> 1]
    /\ waiting = [w \in Workers |-> FALSE]
    /\ ncoll = [w \in Workers |-> 4]
    /\ cur = [w \in Workers |-> Call("init_device_mesh", "L224", 0)]
    /\ halted = None
    /\ dl = [ds \in Datasets |-> "done"]
    /\ loaded = [w \in Workers |-> Datasets]
    /\ group = [w \in Workers |->
                  [u \in Units |-> IF u = Root THEN RootOwnParams ELSE {LeafParam(u)}]]
    /\ mat = [w \in Workers |-> {}]
    /\ running = [w \in Workers |-> {}]
    /\ gathers = [w \in Workers |-> [u \in Units |-> 0]]
    /\ reduced = [w \in Workers |-> {}]
    /\ epoch = [w \in Workers |-> 0]
    /\ i = [w \in Workers |-> 0]
    /\ loss = [w \in Workers |-> 0]
    /\ running_loss = [w \in Workers |-> 0]
    /\ steps = [w \in Workers |-> 0]
    /\ trail = [w \in Workers |-> <<>>]
    /\ out = [w \in Workers |-> IF IsMaster(w) THEN {"pbar"} ELSE {}]
    /\ lastLog = [w \in Workers |-> NoLine]
    /\ winSteps = [w \in Workers |-> 0]
    /\ winSum = [w \in Workers |-> 0]
    /\ sinceSteps = [w \in Workers |-> 0]
    /\ sinceSum = [w \in Workers |-> 0]
    /\ pc = [w \in Workers |-> "epoch_start"]

\* The data set is not part of the script: LogSpec tries loaders a little
\* shorter and a little longer than the logging interval.
LogInit ==
    /\ AtLoopEntry
    /\ rootReshards \in BOOLEAN
    /\ nbatches \in (LogInterval - LogSlack) .. (LogInterval + LogSlack)
    /\ data \in LossBases
    /\ imgH = ImageSize /\ imgW = ImageSize
    /\ result = [status |-> "none", rows |-> 0]

\* All-gathers of a unit in one step, and collectives of one step in all.
GathersPerStep(u) == IF ReshardAfterForward(u, rootReshards) THEN 2 ELSE 1
CollectivesPerStep ==
    (IF rootReshards THEN 2 ELSE 1) + 2 * Cardinality(Leaves) + Cardinality(Units)

\* LogSpec runs the workers in lock step, a whole statement of the loop at
\* a time on every worker, and a whole loop body (lines 254-274) as one
\* step: the schedule in which every worker is at the same place.
LockEpochStart ==
    /\ \A w \in Workers : pc[w] = "epoch_start"
    /\ running_loss' = [w \in Workers |-> 0]
    /\ i' = [w \in Workers |-> 0]
    /\ winSteps' = [w \in Workers |-> 0]
    /\ winSum' = [w \in Workers |-> 0]
    /\ pc' = [w \in Workers |-> "fetch"]
    /\ UNCHANGED <<sub, trail, commVars, dataVars, fsdpVars, epoch, loss, steps,
                   out, lastLog, sinceSteps, sinceSum, envVars, shapeVars>>

LockFetch ==
    /\ \A w \in Workers : pc[w] = "fetch"
    /\ IF \A w \in Workers : i[w] < BatchesFor(w, nbatches)
         THEN /\ pc' = [w \in Workers |-> StepOrder[1]]
              /\ gathers' = [w \in Workers |-> [u \in Units |-> 0]]
              /\ UNCHANGED epoch
         ELSE /\ epoch' = [w \in Workers |-> epoch[w] + 1]
              /\ pc' = [w \in Workers |->
                           IF epoch[w] + 1 < Epochs THEN "epoch_start" ELSE "finish"]
              /\ UNCHANGED gathers
    /\ trail' = [w \in Workers |-> <<>>]
    /\ UNCHANGED <<sub, commVars, dataVars, group, mat, running, reduced, i, loss,
                   running_loss, steps, logVars, envVars, shapeVars>>

LockBody ==
    /\ \A w \in Workers : pc[w] = StepOrder[1]
    /\ loss' = [w \in Workers |-> BatchLoss(data, w, epoch[w], i[w])]
    /\ AddLoss(Workers, [w \in Workers |-> BatchLoss(data, w, epoch[w], i[w])])
    /\ out' = [w \in Workers |-> PbarWritten(w, LineWritten(w, PrintIfMaster(w, out[w])))]
    /\ i' = [w \in Workers |-> i[w] + 1]
    /\ steps' = [w \in Workers |-> steps[w] + 1]
    /\ trail' = [w \in Workers |-> StepOrder]
    /\ reduced' = [w \in Workers |-> Units]
    /\ gathers' = [w \in Workers |-> [u \in Units |-> GathersPerStep(u)]]
    /\ ncoll' = [w \in Workers |-> ncoll[w] + CollectivesPerStep]
    /\ cur' = [w \in Workers |-> Call("reduce_scatter", "backward", Root)]
    /\ pc' = [w \in Workers |-> "fetch"]
    /\ UNCHANGED <<sub, waiting, dataVars, group, mat, running, epoch, envVars, shapeVars>>

LockFinish ==
    /\ \A w \in Workers : pc[w] = "finish"
    /\ out' = [w \in Workers |-> out[w] \cup {"finished"}]
    /\ pc' = [w \in Workers |-> "done"]
    /\ UNCHANGED <<sub, trail, commVars, dataVars, fsdpVars, loopVars,
                   lastLog, winSteps, winSum, sinceSteps, sinceSum, envVars, shapeVars>>

LogNext == LockEpochStart \/ LockFetch \/ LockBody \/ LockFinish

LogSpec == LogInit /\ [][LogNext]_vars

(* ------------- ShapeSpec: VIT.forward's shapes, 140-191 --------------- *)
ShapeError == [status |-> "ShapeError", rows |-> 0]
Shaped(n) == [status |-> "ok", rows |-> n]

\* PatchEmbed.forward, lines 140-145: rearrange "b c (h p1) (w p2) ->
\* b (h w) (p1 p2 c)" raises unless p1 divides the height and p2 the
\* width; it yields h*w rows.
PatchEmbedForward(H, W) ==
    IF H % PatchSize # 0 \/ W % PatchSize # 0 THEN ShapeError
    ELSE Shaped((H \div PatchSize) * (W \div PatchSize))

\* rows of pos_embs, line 168: (image_size // patch_size) ** 2
PosEmbRows == (ImageSize \div PatchSize) * (ImageSize \div PatchSize)

\* x + self.pos_embs.unsqueeze(0), line 186: [b, n, d] + [1, rows, d]
\* broadcasts; the two sizes must be equal or one of them must be 1.
AddPosEmbs(x) ==
    IF x.status # "ok" THEN x
    ELSE IF x.rows = PosEmbRows \/ x.rows = 1 \/ PosEmbRows = 1
         THEN Shaped(IF x.rows >= PosEmbRows THEN x.rows ELSE PosEmbRows)
    ELSE ShapeError

\* transformer, out_norm, pooler and proj_out (lines 187-190) accept any
\* number of rows; the pooler reduces them to one vector per image.
VITForward(H, W) == AddPosEmbs(PatchEmbedForward(H, W))

ShapeInit ==
    /\ AtLoopEntry
    /\ rootReshards = TRUE /\ nbatches = NumBatches /\ data = 1
    /\ imgH \in 1 .. MaxSide /\ imgW \in 1 .. MaxSide
    /\ result = [status |-> "none", rows |-> 0]

\* net(inputs) on an image batch of imgH x imgW, three channels
ModelForward ==
    /\ result.status = "none"
    /\ result' = VITForward(imgH, imgW)
    /\ UNCHANGED <<pc, sub, trail, commVars, dataVars, fsdpVars, loopVars, logVars,
                   envVars, imgH, imgW>>

ShapeSpec == ShapeInit /\ [][ModelForward]_vars

(* ============================== claims ================================ *)
MatParams(w) == UNION {group[w][u] : u \in mat[w]}

\* C1: every worker issues the same sequence of collective calls: two
\* workers that have joined equally many collectives joined the same call
\* last (the same kind, at the same place of the script, for the same
\* unit), whatever the rank-dependent branches did in between.
C1_SameCollectives ==
    \A w, v \in Workers : ncoll[w] = ncoll[v] => cur[w] = cur[v]

\* two workers meet in a gradient reduction of the second epoch, after the
\* rank-0-only downloads
C1_Witness ==
    \E w, v \in Workers :
        /\ w # v /\ waiting[w] /\ waiting[v] /\ ncoll[w] = ncoll[v]
        /\ cur[w].kind = "reduce_scatter" /\ epoch[w] = 1
        /\ dl["test"] = "done"

\* C2, as claimed: every wrapped unit, the root included, is unsharded
\* exactly while its forward or its backward runs, so that it is sharded
\* between its forward and its backward, and is all-gathered exactly twice
\* in a step.
C2_Original ==
    \A w \in Workers :
        /\ running[w] = mat[w]
        /\ pc[w] = "opt_step" => \A u \in Units : gathers[w][u] = 2

\* C2, amended: a unit is unsharded whenever its forward or backward runs;
\* every Attention and FeedForward unit is unsharded only then and is
\* all-gathered exactly twice in a step; the root unit is all-gathered
\* once or twice, and when it is unsharded while not running it is between
\* its forward and its backward.
C2_Amended ==
    \A w \in Workers :
        /\ running[w] \subseteq mat[w]
        /\ (mat[w] \cap Leaves) \subseteq running[w]
        /\ (Root \in mat[w] /\ Root \notin running[w]) =>
              (pc[w] = "loss" \/ (pc[w] = "backward" /\ sub[w] = 1))
        /\ pc[w] = "opt_step" =>
              /\ \A u \in Leaves : gathers[w][u] = 2
              /\ gathers[w][Root] \in {1, 2}

\* a feed-forward unit is sharded again while the backward pass, which has
\* already gathered it a second time and reduced it, is still running
C2_Witness ==
    \E w \in Workers :
        /\ pc[w] = "backward" /\ 2 * Depth \in reduced[w] /\ 2 * Depth \notin mat[w]
        /\ gathers[w][2 * Depth] = 2 /\ Root \in running[w]

\* C3, as claimed: during a pass at most one unit's parameters are
\* unsharded on a worker, all others (the root's own among them) sharded.
C3_Original ==
    \A w \in Workers : InPass(w) => Cardinality(mat[w]) <= 1

\* C3, amended: during a pass the unsharded parameters are at most those
\* of one Attention or FeedForward unit together with the root unit's own
\* (patch embedding, positional embedding, final norm, pooler, head).
C3_Amended ==
    \A w \in Workers :
        \E L \in SUBSET Leaves :
            /\ Cardinality(L) <= 1
            /\ MatParams(w) \subseteq RootOwnParams \cup {LeafParam(u) : u \in L}

\* an attention unit's forward runs with its own and the root's parameters
\* unsharded
C3_Witness ==
    \E w \in Workers :
        /\ pc[w] = "forward" /\ 1 \in running[w]
        /\ MatParams(w) = RootOwnParams \cup {LeafParam(1)}

\* C4: only rank 0 writes log or progress output.
C4_OnlyMasterWrites ==
    \A w \in Workers : ~IsMaster(w) => out[w] = {}

\* C5: VIT.forward fails with a shape error whenever the patch size does
\* not divide the image's height or width, and whenever the number of
\* patches differs from the number of rows of the positional embedding.
C5_ShapeErrorOnMismatch ==
    result.status # "none" =>
        ((\/ imgH % PatchSize # 0
          \/ imgW % PatchSize # 0
          \/ (imgH \div PatchSize) * (imgW \div PatchSize) # PosEmbRows)
         => result.status = "ShapeError")

\* C6: a worker other than rank 0 constructs a data set only after rank 0
\* has completed its download of it: it passes the barrier only then.
C6_LoadAfterDownload ==
    \A w \in Workers : \A ds \in Datasets :
        (~IsMaster(w) /\ (pc[w] = LoadStage(ds) \/ ds \in loaded[w])) => dl[ds] = "done"

\* rank 1 has constructed the training set while the test set is still
\* to be downloaded by rank 0
C6_Witness ==
    \E w \in Workers :
        /\ ~IsMaster(w) /\ "train" \in loaded[w] /\ "test" \notin loaded[w]
        /\ dl["train"] = "done" /\ dl["test"] = "running"

\* C7: a step runs zero_grad, forward, loss, backward, optimizer step in
\* this order; the optimizer steps only on gradients that every unit has
\* reduced in this step's backward, and a forward pass starts from cleared
\* gradients.
StepStages == <<"zero_grad", "forward", "loss", "backward", "opt_step", "stats", "pbar">>

C7_StepOrder ==
    \A w \in Workers :
        /\ Len(trail[w]) <= Len(StepStages)
        /\ \A k \in 1 .. Len(trail[w]) : trail[w][k] = StepStages[k]
        /\ pc[w] \in {"zero_grad", "forward", "loss", "backward", "opt_step", "stats", "pbar"}
              => pc[w] = StepStages[Len(trail[w]) + 1]
        /\ pc[w] = "opt_step" => reduced[w] = Units /\ mat[w] = {} /\ ~waiting[w]
        /\ pc[w] \in {"forward", "loss"} => reduced[w] = {}

\* the optimizer is about to step in a later step than the first, on fully
\* reduced gradients
C7_Witness ==
    \E w \in Workers : pc[w] = "opt_step" /\ steps[w] >= 1 /\ reduced[w] = Units

\* C8: with every worker live and running, every worker reaches the end
\* of training, having done Epochs * len(trainloader) steps.
C8_Terminates ==
    /\ <>(\A w \in Workers : pc[w] = "done")
    /\ [](\A w \in Workers : pc[w] = "done" => steps[w] = Epochs * nbatches)

C8_Witness ==
    \A w \in Workers : pc[w] = "done" /\ steps[w] = Epochs * nbatches /\ steps[w] > 0

\* C9, as claimed: once a worker has stopped (between two collective
\* calls, not inside one), no other worker reaches the end of training.
C9_Original ==
    [][\A w \in Workers :
          (halted # None /\ w # halted /\ pc[w] # "done" /\ ~waiting[halted])
          => pc'[w] # "done"]_vars

\* C9, amended: a worker never gets past a collective that the stopped
\* worker has not joined: it joins at most the first such collective and
\* then stays blocked in it for good, completing no further step.
C9_Amended ==
    /\ [](halted # None =>
            \A w \in Workers :
                /\ ncoll[w] <= ncoll[halted] + 1
                /\ ncoll[w] = ncoll[halted] + 1 => waiting[w])
    /\ [][\A w \in Workers :
            (halted # None /\ w # halted /\ waiting[w] /\ ncoll[halted] < ncoll[w])
            => /\ waiting'[w] /\ pc'[w] = pc[w] /\ sub'[w] = sub[w]
               /\ ncoll'[w] = ncoll[w] /\ steps'[w] = steps[w]]_vars

\* a worker is blocked in a collective of its second step that the stopped
\* worker never joined
C9_Witness ==
    \E w \in Workers :
        /\ halted # None /\ w # halted /\ waiting[w]
        /\ ncoll[halted] < ncoll[w] /\ steps[w] >= 1

====
